---- MODULE Spec2Model ----
(***************************************************************************)
(* A model of ratarmount: the JoinedFile stream of JoinedFileMount.py and  *)
(* the IndexedTar / TarMount pair of ratarmount.py.                        *)
(*                                                                         *)
(* Python indices are kept 0-based in the state; a sequence s is indexed   *)
(* as s[i + 1].  Strings are sequences of code points, byte strings are    *)
(* sequences of integers 0..255.                                           *)
(***************************************************************************)
EXTENDS Integers, Sequences, FiniteSets, TLC

VARIABLES
    \* ---- JoinedFile (JoinedFileMount.py) ----
    sizes,        \* self.sizes: sizes of the kept (non-empty) parts
    offset,       \* self.offset: the logical offset
    fileobj,      \* self.fileobj: the open part and the position inside it
    closed,       \* close() has been called
    jfRet,        \* the last JoinedFile call and what it returned
    openFiles,    \* how many part files are open
    peakOpen,     \* the most part files that were open at one moment
    \* ---- IndexedTar and TarMount (ratarmount.py) ----
    tarFile,          \* the members of the archive being mounted
    indexFile,        \* the index file beside the archive: [exists, bytes]
    cacheIndexFile,   \* the index file in the cache folder ~/.ratarmount
    pc,               \* where the program is: "start", "createIndex", "indexed",
                      \* "mounted", "unmounted" or "crashed"
    mountRecursively, \* self.mountRecursively
    fileIndex,        \* self.fileIndex
    scanPos,          \* members createIndex has gone through
    how,              \* how fileIndex was obtained: "scan" or "index"
    loadRet,          \* what IndexedTar.load returned to the last loadIndex, and the
                      \* log of what the load path did to the candidate files
    err,              \* the exception that ended the program
    ret,              \* the filesystem callback being answered, and its answer
    dumped,           \* the tree the index file was written from
    first,            \* the tree the first mount served, and whether its index
                      \* file was written
    fileObject,       \* the handle createIndex reads the archive through: its
                      \* position, and the last nested scan's oldPos
    tarFileTell,      \* the position of self.tarFile, the handle TarMount.read uses
    threads           \* the read callbacks running in the threads of the FUSE loop

jfVars == <<sizes, offset, fileobj, closed, jfRet, openFiles, peakOpen>>

tarVars == <<tarFile, indexFile, cacheIndexFile, pc, mountRecursively, fileIndex, scanPos, how,
             loadRet, err, ret, dumped, first>>

vars == <<sizes, offset, fileobj, closed, jfRet, openFiles, peakOpen,
          tarFile, indexFile, cacheIndexFile, pc, mountRecursively, fileIndex, scanPos, how,
          loadRet, err, ret, dumped, first, fileObject, tarFileTell, threads>>

ioVars == <<fileObject, tarFileTell, threads>>

\* ---------------------------------------------------------------- bounds

MaxParts    == 3   \* number of file paths given to JoinedFile
MaxPartSize == 2   \* size of one part on disk (0 = empty part, dropped)
MaxTotal    == 4   \* summed size of the parts
MaxRead     == 3   \* largest size argument of read
MaxPast     == 1   \* how far past the end (or before the start) a seek may aim

\* ---------------------------------------------------------------- helpers

Min(a, b) == IF a < b THEN a ELSE b

Max(a, b) == IF a > b THEN a ELSE b

RECURSIVE SumSeq(_)
SumSeq(s) == IF s = <<>> THEN 0 ELSE Head(s) + SumSeq(Tail(s))

\* The integers a, a+1, ..., b-1 as a sequence (empty when b <= a).
Range(a, b) == [k \in 1..Max(0, b - a) |-> a + k - 1]

\* Python's s[a:b] for 0 <= a, on a sequence.
Slice(s, a, b) ==
    LET lo == Min(a, Len(s))
        hi == Max(lo, Min(b, Len(s)))
    IN  [k \in 1..(hi - lo) |-> s[lo + k]]

\* ================================================================
\* JoinedFile
\* ================================================================

None == [part |-> -1, pos |-> 0]

\* __init__: parts of size 0 are not kept.
KeptSizes(raw) == SelectSeq(raw, LAMBDA s : s > 0)

\* self.cumsizes, as __init__ accumulates it: [0, s0, s0+s1, ...]
RECURSIVE CumSizesFrom(_, _)
CumSizesFrom(acc, rest) ==
    IF rest = <<>> THEN acc
    ELSE CumSizesFrom(Append(acc, acc[Len(acc)] + Head(rest)), Tail(rest))

cumsizes == CumSizesFrom(<<0>>, sizes)

Total == cumsizes[Len(cumsizes)]

\* The bytes of part i as testJoinedFile writes them: the joined content is
\* the ascending sequence 0, 1, 2, ...
PartContent(i) == Range(cumsizes[i + 1], cumsizes[i + 2])

\* C, the concatenation of the part contents.
Joined == Range(0, Total)

\* bisect.bisect_left(a, x): binary search for the first index whose element
\* is >= x, in a sorted list.
RECURSIVE BisectLoop(_, _, _, _)
BisectLoop(a, x, lo, hi) ==
    IF lo < hi
    THEN LET mid == (lo + hi) \div 2
         IN  IF a[mid + 1] < x THEN BisectLoop(a, x, mid + 1, hi)
                               ELSE BisectLoop(a, x, lo, mid)
    ELSE lo

\* A mutant of BisectLeft: bisect_right, the first index whose element is > x.
RECURSIVE BisectRightLoop(_, _, _, _)
BisectRightLoop(a, x, lo, hi) ==
    IF lo < hi
    THEN LET mid == (lo + hi) \div 2
         IN  IF x < a[mid + 1] THEN BisectRightLoop(a, x, lo, mid)
                               ELSE BisectRightLoop(a, x, mid + 1, hi)
    ELSE lo

BisectRight(a, x) == BisectRightLoop(a, x, 0, Len(a))

BisectLeft(a, x) == BisectLoop(a, x, 0, Len(a))

\* _findStencil(offset), for offset >= 0 (it asserts that).
FindStencil(o) == BisectLeft(cumsizes, o + 1) - 1

\* self.fileobj.read(n) on the open part: the bytes from its position on.
FileRead(f, n) == Slice(PartContent(f.part), f.pos, f.pos + n)

\* self.fileobj.close() leaves the file open: n files stay open.
FileobjKeptOpen(n) == n

\* self.fileobj.close(): of n open files, one fewer is open.
FileobjClose(n) == n - 1

\* open( self.filePaths[i], 'rb' ): one more file is open.  o is [now, peak].
Open(o) == [now |-> o.now + 1, peak |-> Max(o.peak, o.now + 1)]

\* The while loop of read.  st is [size, i, offset, fileobj, result, open].
RECURSIVE ReadLoop(_)
ReadLoop(st) ==
    IF ~(st.size > 0 /\ st.i < Len(sizes))
    THEN st
    ELSE LET readableSize ==
                 Min(st.size, sizes[st.i + 1] - (st.offset - cumsizes[st.i + 1]))
         IN  IF readableSize = 0
             THEN IF st.i + 1 >= Len(sizes)
                  THEN [st EXCEPT !.i = st.i + 1]
                  ELSE ReadLoop([st EXCEPT !.i = st.i + 1,
                                           !.fileobj = [part |-> st.i + 1, pos |-> 0],
                                           !.open = Open([st.open EXCEPT
                                                            !.now = FileobjClose(st.open.now)])])
             ELSE LET tmp == FileRead(st.fileobj, readableSize)
                  IN  ReadLoop([st EXCEPT
                          !.fileobj = [part |-> st.fileobj.part,
                                       pos  |-> st.fileobj.pos + Len(tmp)],
                          !.offset  = st.offset + Len(tmp),
                          !.result  = st.result \o tmp,
                          !.size    = st.size - readableSize])

\* What a JoinedFile call leaves in jfRet: the call, its argument (for seek the
\* position asked for), the logical offset it was issued at, and the outcome.
JfRet(op, arg, at, status, data, val) ==
    [op |-> op, arg |-> arg, at |-> at, status |-> status, data |-> data, val |-> val]

\* seek(offset, whence): the new logical offset.
SeekTarget(o, whence) ==
    CASE whence = "SEEK_CUR" -> offset + o
      [] whence = "SEEK_END" -> Total + o
      [] whence = "SEEK_SET" -> o

\* seek(offset, whence).  self.currentFile is None from __init__ to close(),
\* so "i != self.currentFile" holds at every call and the part is reopened.
Seek(o, whence) ==
    /\ ~closed
    /\ LET new == SeekTarget(o, whence)
       IN  /\ new >= -MaxPast
           /\ new <= Total + MaxPast
           /\ offset' = new
           /\ IF new < 0
              THEN /\ fileobj' = fileobj
                   /\ jfRet' = JfRet("seek", new, offset, "Exception", <<>>, 0)
                   /\ UNCHANGED <<openFiles, peakOpen>>
              ELSE IF new >= Total
              THEN /\ fileobj' = fileobj
                   /\ jfRet' = JfRet("seek", new, offset, "ok", <<>>, new)
                   /\ UNCHANGED <<openFiles, peakOpen>>
              ELSE LET i == FindStencil(new)
                       f == Open([now  |-> IF fileobj # None THEN FileobjClose(openFiles)
                                                             ELSE openFiles,
                                  peak |-> peakOpen])
                   IN  /\ fileobj' = [part |-> i, pos |-> new - cumsizes[i + 1]]
                       /\ jfRet' = JfRet("seek", new, offset, "ok", <<>>, new)
                       /\ openFiles' = f.now
                       /\ peakOpen' = f.peak
    /\ UNCHANGED <<sizes, closed, tarVars, ioVars>>

\* read(size)
Read(n) ==
    /\ ~closed
    /\ IF offset < 0
       THEN \* size = -1 is resolved first, then _findStencil asserts offset >= 0
            /\ jfRet' = JfRet("read", n, offset, "AssertionError", <<>>, 0)
            /\ UNCHANGED <<offset, fileobj, openFiles, peakOpen>>
       ELSE LET size == IF n = -1 THEN Total - offset ELSE n
                end  == ReadLoop([size |-> size, i |-> FindStencil(offset),
                                  offset |-> offset, fileobj |-> fileobj,
                                  result |-> <<>>,
                                  open |-> [now |-> openFiles, peak |-> peakOpen]])
            IN  /\ offset' = end.offset
                /\ fileobj' = end.fileobj
                /\ openFiles' = end.open.now
                /\ peakOpen' = end.open.peak
                /\ jfRet' = JfRet("read", n, offset, "ok", end.result, 0)
    /\ UNCHANGED <<sizes, closed, tarVars, ioVars>>

\* tell()
Tell ==
    /\ ~closed
    /\ jfRet' = JfRet("tell", 0, offset, "ok", <<>>, offset)
    /\ UNCHANGED <<sizes, offset, fileobj, closed, openFiles, peakOpen, tarVars, ioVars>>

\* _findStencil(o) called directly, as testJoinedFile does.
FindStencilCall(o) ==
    /\ ~closed
    /\ jfRet' = JfRet("_findStencil", o, offset, "ok", <<>>, FindStencil(o))
    /\ UNCHANGED <<sizes, offset, fileobj, closed, openFiles, peakOpen, tarVars, ioVars>>

\* close(): the stream is not used afterwards.
Close ==
    /\ ~closed
    /\ fileobj # None
    /\ closed' = TRUE
    /\ fileobj' = None
    /\ openFiles' = FileobjClose(openFiles)
    /\ jfRet' = JfRet("close", 0, offset, "ok", <<>>, 0)
    /\ UNCHANGED <<sizes, offset, peakOpen, tarVars, ioVars>>

RawSizes ==
    {raw \in UNION {[1..n -> 0..MaxPartSize] : n \in 0..MaxParts} :
        SumSeq(raw) <= MaxTotal}

\* ---------------------------------------------------------------- C1

\* C1: read(n) issued at logical offset o = tell() >= 0 returns C[o:o+n], and
\* read(-1) returns C[o:], with C the concatenation of the part contents; also
\* for a read that follows a read without a seek in between.
C1_ReadSeekEquivalence ==
    (jfRet.op = "read" /\ jfRet.at >= 0) =>
        /\ jfRet.status = "ok"
        /\ jfRet.data = IF jfRet.arg = -1
                        THEN Slice(Joined, jfRet.at, Total)
                        ELSE Slice(Joined, jfRet.at, jfRet.at + jfRet.arg)

\* ---------------------------------------------------------------- C2

\* i is an index of a part, and offset o lies in that part.
Owns(i, o) ==
    /\ i \in 0..(Len(sizes) - 1)
    /\ cumsizes[i + 1] <= o
    /\ o < cumsizes[i + 2]

\* C2 as stated: with at least one part, for every offset 0 <= o <= sum(sizes), _findStencil(o) is the
\* index of the part that holds o, a valid index into the part list.
C2_FindStencilUpToTotal ==
    (jfRet.op = "_findStencil" /\ Len(sizes) >= 1
        /\ 0 <= jfRet.arg /\ jfRet.arg <= Total) =>
        Owns(jfRet.val, jfRet.arg)

\* C2 amended: for 0 <= o < sum(sizes), _findStencil(o) is the one index i of a
\* part with cumsizes[i] <= o < cumsizes[i+1]; for o >= sum(sizes) it is
\* len(sizes), one past the last part.
C2_FindStencil ==
    jfRet.op = "_findStencil" =>
        IF jfRet.arg < Total
        THEN /\ Owns(jfRet.val, jfRet.arg)
             /\ \A j \in 0..(Len(sizes) - 1) : Owns(j, jfRet.arg) => j = jfRet.val
        ELSE jfRet.val = Len(sizes)

\* _findStencil was asked for the first offset of a part that is not the first.
C2_Witness ==
    /\ jfRet.op = "_findStencil"
    /\ Len(sizes) >= 2
    /\ jfRet.arg < Total
    /\ jfRet.val >= 1
    /\ jfRet.arg = cumsizes[jfRet.val + 1]

\* ================================================================
\* Strings and paths (ratarmount.py)
\* ================================================================

Slash == 47   \* '/', os.sep

Dot == 46     \* '.'

\* ".tar"
TarSuffix == <<46, 116, 97, 114>>

StartsWith(s, pre) == Len(s) >= Len(pre) /\ SubSeq(s, 1, Len(pre)) = pre

\* str.endswith
EndsWith(s, suf) ==
    Len(s) >= Len(suf) /\ SubSeq(s, Len(s) - Len(suf) + 1, Len(s)) = suf

\* str.split( os.sep ): the pieces between the separators, empty ones kept.
RECURSIVE SplitFrom(_, _, _, _)
SplitFrom(s, k, cur, acc) ==
    IF k > Len(s) THEN Append(acc, cur)
    ELSE IF s[k] = Slash THEN SplitFrom(s, k + 1, <<>>, Append(acc, cur))
    ELSE SplitFrom(s, k + 1, Append(cur, s[k]), acc)

Split(s) == SplitFrom(s, 1, <<>>, <<>>)

\* '/'.join( comps )
RECURSIVE Join(_)
Join(comps) ==
    IF comps = <<>> THEN <<>>
    ELSE IF Len(comps) = 1 THEN comps[1]
    ELSE comps[1] \o <<Slash>> \o Join(Tail(comps))

\* str.strip( os.sep )
RECURSIVE Strip(_)
Strip(s) ==
    IF s = <<>> THEN s
    ELSE IF s[1] = Slash THEN Strip(Tail(s))
    ELSE IF s[Len(s)] = Slash THEN Strip(SubSeq(s, 1, Len(s) - 1))
    ELSE s

\* The component loop of posixpath.normpath.
RECURSIVE NormComps(_, _, _)
NormComps(comps, new, initial) ==
    IF comps = <<>> THEN new
    ELSE LET comp == Head(comps)
             dotdot == <<Dot, Dot>>
         IN  IF comp = <<>> \/ comp = <<Dot>>
             THEN NormComps(Tail(comps), new, initial)
             ELSE IF \/ comp # dotdot
                     \/ (initial = 0 /\ new = <<>>)
                     \/ (new # <<>> /\ new[Len(new)] = dotdot)
             THEN NormComps(Tail(comps), Append(new, comp), initial)
             ELSE IF new # <<>>
             THEN NormComps(Tail(comps), SubSeq(new, 1, Len(new) - 1), initial)
             ELSE NormComps(Tail(comps), new, initial)

\* os.path.normpath
NormPath(path) ==
    IF path = <<>> THEN <<Dot>>
    ELSE LET initial ==
                 IF ~StartsWith(path, <<Slash>>) THEN 0
                 ELSE IF StartsWith(path, <<Slash, Slash>>)
                         /\ ~StartsWith(path, <<Slash, Slash, Slash>>) THEN 2
                 ELSE 1
             OrDot(full) == IF full = <<>> THEN <<Dot>> ELSE full
             Full(slashes) ==
                 [k \in 1..slashes |-> Slash] \o Join(NormComps(Split(path), <<>>, slashes))
         IN  OrDot(Full(initial))

\* re.sub( r"\.tar$", "", path )
StripTar(path) ==
    IF EndsWith(path, TarSuffix) THEN SubSeq(path, 1, Len(path) - Len(TarSuffix))
    ELSE path

\* The non-empty names of a split path, in order: what the descent loops of
\* getFileInfo, setFileInfo and setDirInfo visit ("if not name: continue").
NonEmpty(comps) == SelectSeq(comps, LAMBDA c : c # <<>>)

\* ================================================================
\* Mode bits and FileInfo (ratarmount.py)
\* ================================================================

S_IFDIR == 16384   \* 0o040000
S_IFREG == 32768   \* 0o100000
S_IFLNK == 40960   \* 0o120000
S_IRUSR == 256     \* 0o400
S_IWUSR == 128     \* 0o200
S_IXUSR == 64      \* 0o100
S_IRGRP == 32      \* 0o040
S_IWGRP == 16      \* 0o020
S_IXGRP == 8       \* 0o010
S_IROTH == 4       \* 0o004
S_IWOTH == 2       \* 0o002
S_IXOTH == 1       \* 0o001
Perm777 == 511     \* 0o777
Perm555 == 365     \* 0o555

\* a & b, a | b and a & ~b on non-negative integers, bit by bit.
RECURSIVE BitAnd(_, _)
BitAnd(a, b) ==
    IF a = 0 \/ b = 0 THEN 0
    ELSE (a % 2) * (b % 2) + 2 * BitAnd(a \div 2, b \div 2)

RECURSIVE BitOr(_, _)
BitOr(a, b) ==
    IF a = 0 THEN b
    ELSE IF b = 0 THEN a
    ELSE Max(a % 2, b % 2) + 2 * BitOr(a \div 2, b \div 2)

RECURSIVE AndNot(_, _)
AndNot(a, b) ==
    IF a = 0 THEN 0
    ELSE (a % 2) * (1 - (b % 2)) + 2 * AndNot(a \div 2, b \div 2)

\* tarfile.REGTYPE, DIRTYPE, SYMTYPE: the bytes b'0', b'5', b'2'.
REGTYPE == <<48>>
DIRTYPE == <<53>>
SYMTYPE == <<50>>

\* The namedtuple FileInfo.
FileInfo(o, size, mtime, mode, type, linkname, uid, gid, istar) ==
    [offset |-> o, size |-> size, mtime |-> mtime, mode |-> mode, type |-> type,
     linkname |-> linkname, uid |-> uid, gid |-> gid, istar |-> istar]

\* The record getFileInfo makes up for a directory without a "." entry.
DefaultDirInfo ==
    FileInfo(0, 1, 0, BitOr(Perm555, S_IFDIR), DIRTYPE, <<>>, 0, 0, FALSE)

\* "if mountMode & r != 0: mountMode |= x"
AddExec(m, r, x) == IF BitAnd(m, r) # 0 THEN BitOr(m, x) ELSE m

\* "mountMode": the permission bits as a directory, readable implies executable.
MountMode(mode) ==
    AddExec(AddExec(AddExec(BitOr(BitAnd(mode, Perm777), S_IFDIR), S_IRUSR, S_IXUSR),
                    S_IRGRP, S_IXGRP),
            S_IROTH, S_IXOTH)

\* ================================================================
\* The path tree self.fileIndex
\*
\* The nested dictionaries are kept flat: dirs is the set of paths (sequences
\* of keys) that hold a dictionary, files maps the paths that hold a FileInfo
\* to it.  The root dictionary is the empty path.
\* ================================================================

NoFiles == [q \in {} |-> 0]

EmptyTree == [dirs |-> {<<>>}, files |-> NoFiles]

\* Q is P or lies below P.
Under(P, Q) == Len(Q) >= Len(P) /\ SubSeq(Q, 1, Len(P)) = P

IsDict(t, P) == P \in t.dirs

IsLeaf(t, P) == P \in DOMAIN t.files

\* name in p, for the dictionary at P.
HasKey(t, P, name) == IsDict(t, Append(P, name)) \/ IsLeaf(t, Append(P, name))

\* p.keys(), for the dictionary at P.
Keys(t, P) ==
    {Q[Len(Q)] : Q \in {R \in t.dirs \cup DOMAIN t.files : Len(R) = Len(P) + 1 /\ Under(P, R)}}

\* The tree without whatever P holds.
RemoveAt(t, P) ==
    [dirs  |-> {Q \in t.dirs : ~Under(P, Q)},
     files |-> [Q \in {R \in DOMAIN t.files : ~Under(P, R)} |-> t.files[Q]]]

\* p.update( { name : fileInfo } ): P holds the FileInfo, and nothing else.
PutLeaf(t, P, info) ==
    LET r == RemoveAt(t, P)
    IN  [dirs  |-> r.dirs,
         files |-> [Q \in DOMAIN r.files \cup {P} |-> IF Q = P THEN info ELSE r.files[Q]]]

\* p.update( { name : dirContents } ): P holds the dictionary sub, and nothing else.
PutDict(t, P, sub) ==
    LET r == RemoveAt(t, P)
        moved == {P \o Q : Q \in DOMAIN sub.files}
    IN  [dirs  |-> r.dirs \cup {P \o Q : Q \in sub.dirs},
         files |-> [Q \in DOMAIN r.files \cup moved |->
                       IF Q \in moved THEN sub.files[SubSeq(Q, Len(P) + 1, Len(Q))]
                       ELSE r.files[Q]]]

\* self.fileIndex is non-empty
IndexIsLoaded(t) == t # EmptyTree

\* The descent of getFileInfo: "if not name in p: return; p = p[name]".  On a
\* FileInfo p, "name in p" compares name with the fields of the tuple, of which
\* only linkname is a string, and p[name] then raises TypeError.
RECURSIVE LookupLoop(_, _, _)
LookupLoop(t, names, P) ==
    IF names = <<>> THEN [kind |-> "found", at |-> P]
    ELSE IF IsDict(t, P)
    THEN IF HasKey(t, P, Head(names))
         THEN LookupLoop(t, Tail(names), Append(P, Head(names)))
         ELSE [kind |-> "None", at |-> P]
    ELSE IF t.files[P].linkname = Head(names)
    THEN [kind |-> "TypeError", at |-> P]
    ELSE [kind |-> "None", at |-> P]

\* getFileInfo( path, listDir ): kind is "FileInfo" (info), "dict" (the
\* dictionary at path at), "None", or "TypeError".
GetFileInfo(t, path, listDir) ==
    LET Result(r) ==
            IF r.kind # "found"
            THEN [kind |-> r.kind, info |-> DefaultDirInfo, at |-> r.at]
            ELSE IF IsDict(t, r.at)
            THEN IF listDir
                 THEN [kind |-> "dict", info |-> DefaultDirInfo, at |-> r.at]
                 ELSE IF IsLeaf(t, Append(r.at, <<Dot>>))
                 THEN [kind |-> "FileInfo", info |-> t.files[Append(r.at, <<Dot>>)],
                       at |-> r.at]
                 ELSE IF IsDict(t, Append(r.at, <<Dot>>))
                 THEN [kind |-> "dict", info |-> DefaultDirInfo,
                       at |-> Append(r.at, <<Dot>>)]
                 ELSE [kind |-> "FileInfo", info |-> DefaultDirInfo, at |-> r.at]
            ELSE [kind |-> "FileInfo", info |-> t.files[r.at], at |-> r.at]
    IN  Result(LookupLoop(t, NonEmpty(Split(NormPath(path))), <<>>))

\* isDir( path )
IsDir(t, path) == GetFileInfo(t, path, TRUE).kind = "dict"

\* exists( path ): "yes", "no", or "TypeError" when a lookup raises it.
Exists(t, path) ==
    LET Of(np) ==
            LET Kind(listed) ==
                    IF listed.kind = "TypeError" THEN "TypeError"
                    ELSE IF listed.kind = "dict" THEN "yes"
                    ELSE IF GetFileInfo(t, np, FALSE).kind = "FileInfo" THEN "yes"
                    ELSE "no"
            IN  Kind(GetFileInfo(t, np, TRUE))
    IN  Of(NormPath(path))

\* The descent of setFileInfo and setDirInfo over pathHierarchy[:-1]:
\* "assert isinstance( p, dict ); p = p.setdefault( name, {} )".
RECURSIVE Descend(_, _, _)
Descend(t, names, P) ==
    IF names = <<>> THEN [tree |-> t, at |-> P, err |-> ""]
    ELSE IF ~IsDict(t, P) THEN [tree |-> t, at |-> P, err |-> "AssertionError"]
    ELSE IF HasKey(t, P, Head(names))
    THEN Descend(t, Tail(names), Append(P, Head(names)))
    ELSE Descend([t EXCEPT !.dirs = @ \cup {Append(P, Head(names))}],
                 Tail(names), Append(P, Head(names)))

\* setFileInfo( path, fileInfo )
SetFileInfo(t, path, fileInfo) ==
    LET Put(pathHierarchy) ==
            LET Into(d) ==
                    IF d.err # "" THEN [tree |-> d.tree, err |-> d.err]
                    ELSE IF ~IsDict(d.tree, d.at)
                    THEN [tree |-> d.tree, err |-> "AttributeError"]
                    ELSE [tree |-> PutLeaf(d.tree,
                                           Append(d.at, pathHierarchy[Len(pathHierarchy)]),
                                           fileInfo),
                          err |-> ""]
            IN  Into(Descend(t, NonEmpty(SubSeq(pathHierarchy, 1, Len(pathHierarchy) - 1)),
                             <<>>))
    IN  Put(Split(NormPath(path)))

\* setDirInfo( path, dirInfo, dirContents )
SetDirInfo(t, path, dirInfo, dirContents) ==
    LET Put(pathHierarchy) ==
            LET Into(d) ==
                    IF d.err # "" THEN [tree |-> d.tree, err |-> d.err]
                    ELSE IF ~IsDict(d.tree, d.at)
                    THEN [tree |-> d.tree, err |-> "AttributeError"]
                    ELSE [tree |-> PutLeaf(PutDict(d.tree,
                                                   Append(d.at, pathHierarchy[Len(pathHierarchy)]),
                                                   dirContents),
                                           Append(Append(d.at, pathHierarchy[Len(pathHierarchy)]),
                                                  <<Dot>>),
                                           dirInfo),
                          err |-> ""]
            IN  Into(Descend(t, NonEmpty(SubSeq(pathHierarchy, 1, Len(pathHierarchy) - 1)),
                             <<>>))
    IN  Put(Split(Strip(NormPath(path))))

\* ================================================================
\* The archive, as tarfile reads it
\* ================================================================

BLOCKSIZE  == 512     \* tarfile.BLOCKSIZE: a header, and the unit of padding
RECORDSIZE == 10240   \* tarfile.RECORDSIZE: an archive is padded to records

RoundUp(n, unit) == ((n + unit - 1) \div unit) * unit

\* An archive is written from a sequence of members
\*   [name, type, mode, size, mtime, linkname, uid, gid, inner]
\* where inner, when not empty, lists the members of the archive that is the
\* member's payload.  ArchiveLen is the length of the archive in bytes: per
\* member a header block and the padded payload, then two zero blocks, padded.
RECURSIVE ArchiveLen(_)
RECURSIVE BlocksLen(_)
PayloadSize(m) == IF m.inner # <<>> THEN ArchiveLen(m.inner) ELSE m.size

BlocksLen(ms) ==
    IF ms = <<>> THEN 0
    ELSE BLOCKSIZE + RoundUp(PayloadSize(Head(ms)), BLOCKSIZE) + BlocksLen(Tail(ms))

ArchiveLen(ms) == RoundUp(BlocksLen(ms) + 2 * BLOCKSIZE, RECORDSIZE)

\* The TarInfo objects tarfile yields for the archive that starts at byte h of
\* the file: offset_data is a position in the file, not in the inner archive.
\* members is what tarfile yields when opened at offset_data.
RECURSIVE TarInfos(_, _)
TarInfos(ms, h) ==
    IF ms = <<>> THEN <<>>
    ELSE LET m == Head(ms)
         IN  <<[name |-> m.name, type |-> m.type, mode |-> m.mode,
                offset_data |-> h + BLOCKSIZE, size |-> PayloadSize(m),
                mtime |-> m.mtime, linkname |-> m.linkname,
                uid |-> m.uid, gid |-> m.gid,
                members |-> TarInfos(m.inner, h + BLOCKSIZE)]>>
             \o TarInfos(Tail(ms), h + BLOCKSIZE + RoundUp(PayloadSize(m), BLOCKSIZE))

\* tarInfo.isdir(), isfile(), issym()
IsDirType(ti) == ti.type = DIRTYPE
IsFileType(ti) == ti.type = REGTYPE
IsSymType(ti) == ti.type = SYMTYPE

\* ================================================================
\* IndexedTar.createIndex
\* ================================================================

\* "if tarInfo.isdir() : mode |= stat.S_IFDIR" and its like
WithType(mode, is, bit) == IF is THEN BitOr(mode, bit) ELSE mode

\* mode |= the file type bit of the member
ModeWithType(ti) ==
    WithType(WithType(WithType(ti.mode, IsDirType(ti), S_IFDIR), IsFileType(ti), S_IFREG),
             IsSymType(ti), S_IFLNK)

\* The FileInfo createIndex builds from a TarInfo.
InfoOf(ti) ==
    FileInfo(ti.offset_data, ti.size, ti.mtime, ModeWithType(ti), ti.type,
             ti.linkname, ti.uid, ti.gid, FALSE)

Ok(t) == [tree |-> t, err |-> ""]

Raise(t, e) == [tree |-> t, err |-> e]

\* The istar branch: the nested index is merged in at extractedName, or at the
\* path itself when extractedName is taken.
MountNested(t, ti, path, nested) ==
    LET AsMount(fileInfo) ==
            [fileInfo EXCEPT !.mode = MountMode(fileInfo.mode), !.istar = TRUE]
        MountAt(at) ==
            IF Exists(t, at) = "TypeError" THEN Raise(t, "TypeError")
            ELSE SetDirInfo(t, at, AsMount(InfoOf(ti)), nested)
        Mount(taken) ==
            IF taken = "TypeError" THEN Raise(t, "TypeError")
            ELSE MountAt(IF taken = "no" THEN StripTar(path) ELSE path)
    IN  Mount(Exists(t, StripTar(path)))

\* The branch "elif path != '/'": an entry that is no mounted archive.
\* fileInfo is rebound to what the tree holds at path when the path exists;
\* setFileInfo is then called with three arguments where it takes two.
StoreMember(t, ti, path) ==
    LET Store(e, fileInfo) ==
            IF e = "yes" /\ fileInfo.istar THEN Raise(t, "TypeError")
            ELSE IF IsDirType(ti) THEN SetDirInfo(t, path, fileInfo, EmptyTree)
            ELSE SetFileInfo(t, path, fileInfo)
        Branch(e) ==
            IF e = "TypeError" THEN Raise(t, "TypeError")
            ELSE Store(e, IF e = "yes" THEN GetFileInfo(t, path, FALSE).info ELSE InfoOf(ti))
    IN  Branch(Exists(t, path))

RECURSIVE ScanAll(_, _, _)

\* The body of the loop of createIndex for one member.
ScanMember(t, ti, recursive) ==
    LET open == recursive /\ IsFileType(ti) /\ EndsWith(ti.name, TarSuffix)
        Body(indexedTar, path) ==
            IF indexedTar.err # "" THEN Raise(t, indexedTar.err)
            ELSE IF open /\ IndexIsLoaded(indexedTar.tree)
            THEN MountNested(t, ti, path, indexedTar.tree)
            ELSE IF path # <<Slash>> THEN StoreMember(t, ti, path)
            ELSE Ok(t)
    IN  \* IndexedTar( tarInfo.name, fileObject = fileObject, writeIndex = False )
        Body(IF open THEN ScanAll(EmptyTree, ti.members, FALSE) ELSE Ok(EmptyTree),
             NormPath(<<Slash>> \o ti.name))

\* createIndex on the members tarfile yields: the loop, until a member raises.
ScanAll(t, tis, recursive) ==
    LET Go(r) == IF r.err # "" THEN r ELSE ScanAll(r.tree, Tail(tis), recursive)
    IN  IF tis = <<>> THEN Ok(t) ELSE Go(ScanMember(t, Head(tis), recursive))

\* ================================================================
\* The archives considered
\* ================================================================

MaxMembers == 2   \* members of the outer archive

Member(name, type, mode, size, mtime, linkname, inner) ==
    [name |-> name, type |-> type, mode |-> mode, size |-> size, mtime |-> mtime,
     linkname |-> linkname, uid |-> 1000, gid |-> 100, inner |-> inner]

\* x: a file of one byte, the member of the nested archive
FileX  == Member(<<120>>, REGTYPE, 292, 1, 14, <<>>, <<>>)
\* a: a file of two bytes, mode 0o644
FileA  == Member(<<97>>, REGTYPE, 420, 2, 11, <<>>, <<>>)
\* a again, as an archive appended to holds it: three bytes, mode 0o600
FileA2 == Member(<<97>>, REGTYPE, 384, 3, 12, <<>>, <<>>)
\* d/: a directory, mode 0o755
DirD   == Member(<<100>>, DIRTYPE, 493, 0, 300, <<>>, <<>>)
\* d/e-acute: a file of one byte, mode 0o664, its name not ASCII
FileDE == Member(<<100, 47, 233>>, REGTYPE, 436, 1, 13, <<>>, <<>>)
\* d/l -> e-acute: a symbolic link with a relative target
LinkDL == Member(<<100, 47, 108>>, SYMTYPE, 511, 0, 15, <<233>>, <<>>)
\* s -> /a: a symbolic link with an absolute target
LinkS  == Member(<<115>>, SYMTYPE, 511, 0, 16, <<47, 97>>, <<>>)
\* f.tar: an archive holding x, mode 0o640
TarF   == Member(<<102, 46, 116, 97, 114>>, REGTYPE, 416, 0, 70000, <<>>, <<FileX>>)
\* f/: a directory, mode 0o700
DirF   == Member(<<102>>, DIRTYPE, 448, 0, 17, <<>>, <<>>)

Members == {FileA, FileA2, DirD, FileDE, LinkDL, LinkS, TarF, DirF}

\* The archives: up to MaxMembers different members, in any order.
Archives ==
    {ms \in UNION {[1..n -> Members] : n \in 0..MaxMembers} :
        \A i, j \in 1..Len(ms) : i # j => ms[i] # ms[j]}

\* ================================================================
\* The custom index codec: IndexedTar.dump and IndexedTar.load
\* ================================================================

\* str.encode(): UTF-8
RECURSIVE Utf8Encode(_)
Utf8Encode(s) ==
    IF s = <<>> THEN <<>>
    ELSE LET cp == Head(s)
             bytes == IF cp < 128 THEN <<cp>>
                      ELSE IF cp < 2048 THEN <<192 + (cp \div 64), 128 + (cp % 64)>>
                      ELSE <<224 + (cp \div 4096), 128 + ((cp \div 64) % 64), 128 + (cp % 64)>>
         IN  bytes \o Utf8Encode(Tail(s))

IsCont(b) == b >= 128 /\ b < 192

\* bytes.decode(): UTF-8; ok is FALSE where decode raises UnicodeDecodeError.
RECURSIVE Utf8Decode(_)
Utf8Decode(bs) ==
    IF bs = <<>> THEN [ok |-> TRUE, str |-> <<>>]
    ELSE LET b == bs[1]
             n == IF b < 128 THEN 1
                  ELSE IF b >= 194 /\ b < 224 THEN 2
                  ELSE IF b >= 224 /\ b < 240 THEN 3
                  ELSE 0
             cp == IF n = 1 THEN b
                   ELSE IF n = 2 THEN (b - 192) * 64 + (bs[2] - 128)
                   ELSE (b - 224) * 4096 + (bs[2] - 128) * 64 + (bs[3] - 128)
             Then(rest) ==
                 IF (n = 3 /\ cp < 2048) \/ ~rest.ok
                 THEN [ok |-> FALSE, str |-> <<>>]
                 ELSE [ok |-> TRUE, str |-> <<cp>> \o rest.str]
         IN  IF n = 0 \/ Len(bs) < n \/ \E k \in 2..n : ~IsCont(bs[k])
             THEN [ok |-> FALSE, str |-> <<>>]
             ELSE Then(Utf8Decode(SubSeq(bs, n + 1, Len(bs))))

\* len( serialized ).to_bytes( 4, byteorder = 'little' )
ToBytesLE4(n) ==
    <<n % 256, (n \div 256) % 256, (n \div 65536) % 256, (n \div 16777216) % 256>>

\* A mutant of FromBytesLE: the length is read big-endian.
RECURSIVE FromBytesBE(_)
FromBytesBE(bs) ==
    IF bs = <<>> THEN 0 ELSE bs[Len(bs)] + 256 * FromBytesBE(SubSeq(bs, 1, Len(bs) - 1))

\* int.from_bytes( bytes, byteorder = 'little' ), of however many bytes were read
RECURSIVE FromBytesLE(_)
FromBytesLE(bs) ==
    IF bs = <<>> THEN 0 ELSE bs[1] + 256 * FromBytesLE(Tail(bs))

\* ---- msgpack, for the values a FileInfo holds --------------------

\* an unsigned integer, big-endian, in n bytes
RECURSIVE BytesBE(_, _)
BytesBE(v, n) == IF n = 0 THEN <<>> ELSE BytesBE(v \div 256, n - 1) \o <<(v % 256)>>

RECURSIVE ValueBE(_)
ValueBE(bs) == IF bs = <<>> THEN 0 ELSE 256 * ValueBE(SubSeq(bs, 1, Len(bs) - 1)) + bs[Len(bs)]

\* positive fixint, uint 8, uint 16, uint 32
PackInt(v) ==
    IF v < 128 THEN <<v>>
    ELSE IF v < 256 THEN <<204>> \o BytesBE(v, 1)
    ELSE IF v < 65536 THEN <<205>> \o BytesBE(v, 2)
    ELSE <<206>> \o BytesBE(v, 4)

\* fixstr, str 8
PackStr(str) ==
    LET Of(u) == IF Len(u) < 32 THEN <<160 + Len(u)>> \o u ELSE <<217, Len(u)>> \o u
    IN  Of(Utf8Encode(str))

\* bin 8
PackBin(b) == <<196, Len(b)>> \o b

\* false, true
PackBool(b) == IF b THEN <<195>> ELSE <<194>>

\* msgpack.dumps( fileInfo ): the namedtuple is packed as an array of its nine
\* fields, in declaration order.
PackFileInfo(fi) ==
    <<153>> \o PackInt(fi.offset) \o PackInt(fi.size) \o PackInt(fi.mtime)
            \o PackInt(fi.mode) \o PackBin(fi.type) \o PackStr(fi.linkname)
            \o PackInt(fi.uid) \o PackInt(fi.gid) \o PackBool(fi.istar)

\* One msgpack value at position pos (0-based) of bs: [ok, val, pos].
UnpackValue(bs, pos) ==
    LET bad == [ok |-> FALSE, val |-> 0, pos |-> pos]
        has(n) == pos + n <= Len(bs)
        at(k) == bs[pos + k]
        take(from, n) == SubSeq(bs, pos + from, pos + from + n - 1)
        UInt(n) == [ok |-> TRUE, val |-> ValueBE(take(2, n)), pos |-> pos + 1 + n]
        Text(from, n) ==
            LET Of(d) == [ok |-> d.ok, val |-> d.str, pos |-> pos + from - 1 + n]
            IN  Of(Utf8Decode(take(from, n)))
    IN  IF ~has(1) THEN bad
        ELSE IF at(1) < 128 THEN [ok |-> TRUE, val |-> at(1), pos |-> pos + 1]
        ELSE IF at(1) \in {204, 205, 206}
        THEN IF has(1 + 2 ^ (at(1) - 204)) THEN UInt(2 ^ (at(1) - 204)) ELSE bad
        ELSE IF at(1) = 194 THEN [ok |-> TRUE, val |-> FALSE, pos |-> pos + 1]
        ELSE IF at(1) = 195 THEN [ok |-> TRUE, val |-> TRUE, pos |-> pos + 1]
        ELSE IF at(1) = 196 /\ has(2) /\ has(2 + at(2))
        THEN [ok |-> TRUE, val |-> take(3, at(2)), pos |-> pos + 2 + at(2)]
        ELSE IF at(1) >= 160 /\ at(1) < 192
        THEN IF has(1 + at(1) - 160) THEN Text(2, at(1) - 160) ELSE bad
        ELSE IF at(1) = 217 /\ has(2) /\ has(2 + at(2))
        THEN Text(3, at(2))
        ELSE bad

\* The n values of an array, from position pos on: [ok, vals, pos].
RECURSIVE UnpackValues(_, _, _, _)
UnpackValues(bs, pos, n, acc) ==
    LET Go(v) ==
            IF ~v.ok THEN [ok |-> FALSE, vals |-> acc, pos |-> pos]
            ELSE UnpackValues(bs, v.pos, n - 1, Append(acc, v.val))
    IN  IF n = 0 THEN [ok |-> TRUE, vals |-> acc, pos |-> pos]
        ELSE Go(UnpackValue(bs, pos))

\* FileInfo( *msgpack.loads( serialized ) ): the bytes must hold one array, of
\* nine values, and nothing after it; the values become the fields in order.
UnpackFileInfo(bs) ==
    LET bad == [ok |-> FALSE, info |-> DefaultDirInfo]
        Of(r) ==
            IF ~r.ok \/ r.pos # Len(bs) THEN bad
            ELSE [ok |-> TRUE,
                  info |-> FileInfo(r.vals[1], r.vals[2], r.vals[3], r.vals[4], r.vals[5],
                                    r.vals[6], r.vals[7], r.vals[8], r.vals[9])]
    IN  IF Len(bs) < 1 \/ bs[1] # 153 THEN bad ELSE Of(UnpackValues(bs, 1, 9, <<>>))

\* ---- dump ---------------------------------------------------------

\* The flat tree does not keep the order in which a dictionary lists its keys;
\* dump writes them smallest first (shorter first, then by code point).
RECURSIVE StrLess(_, _)
StrLess(a, b) ==
    IF Len(a) # Len(b) THEN Len(a) < Len(b)
    ELSE IF a = <<>> THEN FALSE
    ELSE IF a[1] # b[1] THEN a[1] < b[1]
    ELSE StrLess(Tail(a), Tail(b))

RECURSIVE Sorted(_)
Sorted(S) ==
    IF S = {} THEN <<>>
    ELSE LET m == CHOOSE x \in S : \A y \in S \ {x} : StrLess(x, y)
         IN  <<m>> \o Sorted(S \ {m})

\* dump( toDump, file ) for a str
DumpStr(str) == LET u == Utf8Encode(str) IN <<4>> \o ToBytesLE4(Len(u)) \o u

\* dump( toDump, file ) for a FileInfo
DumpFileInfo(fi) == LET m == PackFileInfo(fi) IN <<5>> \o ToBytesLE4(Len(m)) \o m

\* dump( toDump, file ) for the dictionary at P
RECURSIVE DumpDict(_, _)
RECURSIVE DumpItems(_, _, _)
DumpItems(t, P, keys) ==
    IF keys = <<>> THEN <<>>
    ELSE LET Q == Append(P, Head(keys))
         IN  <<3>> \o DumpStr(Head(keys))
                 \o (IF IsDict(t, Q) THEN DumpDict(t, Q) ELSE DumpFileInfo(t.files[Q]))
                 \o DumpItems(t, P, Tail(keys))

DumpDict(t, P) == <<1>> \o DumpItems(t, P, Sorted(Keys(t, P))) \o <<2>>

\* dump( self.fileIndex, outFile )
Dump(t) == DumpDict(t, <<>>)

\* ---- load ---------------------------------------------------------

\* file.read( n ) at position pos (0-based): up to n bytes.
FileBytes(bs, pos, n) == Slice(bs, pos, pos + n)

LoadError(pos) == [ok |-> FALSE, tree |-> EmptyTree, pos |-> pos]

\* load( file ) with the file at position pos, for the dictionary that is to
\* sit at path P of the result: [ok, tree, pos].  acc is the tree read so far.
RECURSIVE LoadDict(_, _, _, _)
RECURSIVE LoadItems(_, _, _, _)
LoadItems(bs, pos, P, acc) ==
    LET dictElementType == FileBytes(bs, pos, 1)
        keyType == FileBytes(bs, pos + 1, 1)
        \* value = IndexedTar.load( file ), with the file at vpos
        Dict(Q, value) ==
            IF ~value.ok THEN value ELSE LoadItems(bs, value.pos, P, value.tree)
        Info(Q, spos, value) ==
            IF ~value.ok THEN LoadError(spos)
            ELSE LoadItems(bs, spos, P, PutLeaf(acc, Q, value.info))
        Serialized(Q, spos, size) ==
            Info(Q, spos + Len(FileBytes(bs, spos, size)),
                 UnpackFileInfo(FileBytes(bs, spos, size)))
        Sized(Q, vpos, sizeBytes) ==
            Serialized(Q, vpos + 1 + Len(sizeBytes), FromBytesLE(sizeBytes))
        Value(key, vpos) ==
            IF keyType # <<4>> \/ ~key.ok THEN LoadError(pos)
            ELSE IF FileBytes(bs, vpos, 1) = <<5>>
            THEN Sized(Append(P, key.str), vpos, FileBytes(bs, vpos + 1, 4))
            ELSE IF FileBytes(bs, vpos, 1) = <<1>>
            THEN Dict(Append(P, key.str),
                      LoadDict(bs, vpos, Append(P, key.str),
                               RemoveAt(acc, Append(P, key.str))))
            ELSE LoadError(vpos)
        Key(kpos, keyBytes) == Value(Utf8Decode(keyBytes), kpos + Len(keyBytes))
        KeySized(sizeBytes) ==
            Key(pos + 2 + Len(sizeBytes),
                FileBytes(bs, pos + 2 + Len(sizeBytes), FromBytesLE(sizeBytes)))
    IN  IF Len(dictElementType) = 0 THEN [ok |-> TRUE, tree |-> acc, pos |-> pos]
        ELSE IF dictElementType = <<2>> THEN [ok |-> TRUE, tree |-> acc, pos |-> pos + 1]
        ELSE IF dictElementType # <<3>> THEN LoadError(pos)
        ELSE KeySized(FileBytes(bs, pos + 2, 4))

LoadDict(bs, pos, P, acc) ==
    IF FileBytes(bs, pos, 1) = <<1>>
    THEN LoadItems(bs, pos + 1, P, [acc EXCEPT !.dirs = @ \cup {P}])
    ELSE LoadError(pos)

\* load( file ), the file at its start
Load(bs) == LoadDict(bs, 0, <<>>, EmptyTree)

\* ================================================================
\* TarMount: construction and the filesystem callbacks
\* ================================================================

tarInfos == TarInfos(tarFile, 0)

\* os.stat( self.tarFileName ): a regular file, mode 0o644
tarStats ==
    [st_mode |-> BitOr(S_IFREG, 420), st_size |-> ArchiveLen(tarFile),
     st_mtime |-> 90000, st_uid |-> 1000, st_gid |-> 100]

\* The "." entry TarMount.__init__ puts into the root dictionary.
RootInfo ==
    FileInfo(0, tarStats.st_size, tarStats.st_mtime, MountMode(tarStats.st_mode),
             DIRTYPE, <<>>, tarStats.st_uid, tarStats.st_gid, TRUE)

NoStat == [st_size |-> 0, st_mtime |-> 0, st_mode |-> 0, st_uid |-> 0, st_gid |-> 0,
           st_nlink |-> 0]

Ret(op, path, length, off, status, data, stat, names) ==
    [op |-> op, path |-> path, length |-> length, offset |-> off, status |-> status,
     data |-> data, stat |-> stat, names |-> names]

Idle == Ret("idle", <<>>, 0, 0, "", <<>>, NoStat, <<>>)

NoLoad == [called |-> FALSE, ok |-> FALSE, tree |-> EmptyTree, log |-> <<>>]

NoTree == [set |-> FALSE, tree |-> EmptyTree]

NoFirst == [set |-> FALSE, tree |-> EmptyTree, persisted |-> FALSE]

NoIndexFile == [exists |-> FALSE, bytes |-> <<>>]

\* The state of the JoinedFile variables where no JoinedFile is in use.
JFUnused ==
    /\ sizes = <<>>
    /\ offset = 0
    /\ fileobj = None
    /\ closed = TRUE
    /\ jfRet = JfRet("", 0, 0, "", <<>>, 0)
    /\ openFiles = 0
    /\ peakOpen = 0

\* No handle on the archive is in use, no read callback is running.
NoHandle == [pos |-> 0, oldPos |-> 0, nested |-> FALSE]

NUM_THREADS == 2   \* threads of the FUSE loop that run read callbacks

NoThread == [pc |-> "idle", path |-> <<>>, length |-> 0, offset |-> 0, want |-> 0,
             status |-> "", data |-> <<>>]

IoUnused ==
    /\ fileObject = NoHandle
    /\ tarFileTell = 0
    /\ threads = [t \in 1..NUM_THREADS |-> NoThread]

\* The state of the archive variables where no archive is in use.
TarUnused ==
    /\ IoUnused
    /\ tarFile = <<>>
    /\ indexFile = NoIndexFile
    /\ cacheIndexFile = NoIndexFile
    /\ pc = "unused"
    /\ mountRecursively = FALSE
    /\ fileIndex = EmptyTree
    /\ scanPos = 0
    /\ how = ""
    /\ loadRet = NoLoad
    /\ err = ""
    /\ ret = Idle
    /\ dumped = NoTree
    /\ first = NoFirst

\* An archive on disk, no index file beside it, nothing mounted.
TarInit ==
    /\ tarFile \in Archives
    /\ indexFile = NoIndexFile
    /\ cacheIndexFile = NoIndexFile
    /\ pc = "start"
    /\ mountRecursively = FALSE
    /\ fileIndex = EmptyTree
    /\ scanPos = 0
    /\ how = ""
    /\ loadRet = NoLoad
    /\ err = ""
    /\ ret = Idle
    /\ dumped = NoTree
    /\ first = NoFirst
    /\ IoUnused
    /\ JFUnused

\* A mutant of MountBegin: the index file is not looked for, the archive is
\* scanned at every mount.
MountBeginRescan(recursive) ==
    /\ pc \in {"start", "unmounted"}
    /\ mountRecursively' = recursive
    /\ fileIndex' = EmptyTree
    /\ loadRet' = NoLoad
    /\ pc' = "createIndex"
    /\ how' = "scan"
    /\ scanPos' = 0
    /\ fileObject' = NoHandle
    /\ tarFileTell' = 0
    /\ UNCHANGED <<tarFile, indexFile, cacheIndexFile, err, ret, dumped, first, jfVars, threads>>

\* A mutant of Candidates: the cache folder is looked into first.
CandidatesCacheFirst == <<2, 1, 2, 1>>

\* The candidate index files in the order the two loops of the load path come
\* to them: the preferred backend at the path beside the archive (1) and at
\* the path in the cache folder (2), then every extension at 1 and at 2, the
\* preferred one among them.  Files of other extensions are not there.
Candidates == <<1, 2, 1, 2>>

\* The load path on the candidates of order, from the files, with the tree
\* loaded so far: "if self.indexIsLoaded(): break", a zero-byte file is
\* removed, any other is loaded, and what load raises ends the loop.
RECURSIVE TryCandidates(_, _, _, _)
TryCandidates(order, files, tree, log) ==
    LET Loaded(at, r) ==
            IF ~r.ok
            THEN [ok |-> FALSE, files |-> files, tree |-> tree,
                  log |-> Append(log, [op |-> "load", at |-> at, bytes |-> files[at].bytes])]
            ELSE TryCandidates(Tail(order), files, r.tree,
                               Append(log, [op |-> "load", at |-> at,
                                            bytes |-> files[at].bytes]))
        Try(at) ==
            IF ~files[at].exists THEN TryCandidates(Tail(order), files, tree, log)
            ELSE IF Len(files[at].bytes) = 0
            THEN TryCandidates(Tail(order), [files EXCEPT ![at] = NoIndexFile], tree,
                               Append(log, [op |-> "remove", at |-> at, bytes |-> <<>>]))
            ELSE Loaded(at, Load(files[at].bytes))
    IN  IF order = <<>> \/ IndexIsLoaded(tree)
        THEN [ok |-> TRUE, files |-> files, tree |-> tree, log |-> log]
        ELSE Try(Head(order))

\* TarMount.__init__ up to the end of the load path of IndexedTar.__init__:
\* createIndex follows unless a non-empty index was loaded.  An exception of
\* load is not caught.
MountBegin(recursive) ==
    /\ pc \in {"start", "unmounted"}
    /\ mountRecursively' = recursive
    /\ scanPos' = 0
    /\ \E r \in {TryCandidates(Candidates, <<indexFile, cacheIndexFile>>, EmptyTree, <<>>)} :
           /\ indexFile' = r.files[1]
           /\ cacheIndexFile' = r.files[2]
           /\ loadRet' = [called |-> \E k \in 1..Len(r.log) : r.log[k].op = "load",
                          ok |-> r.ok, tree |-> r.tree, log |-> r.log]
           /\ fileIndex' = r.tree
           /\ pc' = IF ~r.ok THEN "crashed"
                    ELSE IF IndexIsLoaded(r.tree) THEN "indexed"
                    ELSE "createIndex"
           /\ err' = IF r.ok THEN err ELSE "Exception"
           /\ how' = IF r.ok /\ IndexIsLoaded(r.tree) THEN "index" ELSE "scan"
    /\ fileObject' = NoHandle
    /\ tarFileTell' = 0
    /\ UNCHANGED <<tarFile, ret, dumped, first, jfVars, threads>>

\* Where the handle stands when the nested IndexedTar has scanned the archive
\* that starts at tarInfo.offset_data: tarfile has read the header of every
\* member and the zero block that ends the archive.
NestedEnd(ti) ==
    IF ti.members = <<>> THEN ti.offset_data + BLOCKSIZE
    ELSE LET last == ti.members[Len(ti.members)]
         IN  last.offset_data + RoundUp(last.size, BLOCKSIZE) + BLOCKSIZE

\* The handle after the loop body for one member.  tarfile has read the
\* member's header, so the handle stands at offset_data when the body begins.
\*   oldPos = fileObject.tell()
\*   if oldPos != tarInfo.offset_data: fileObject.seek( tarInfo.offset_data )
\*   indexedTar = IndexedTar( tarInfo.name, fileObject = fileObject, ... )
\*   fileObject.seek( fileObject.tell() )
ScanHandle(ti, recursive) ==
    IF recursive /\ IsFileType(ti) /\ EndsWith(ti.name, TarSuffix)
    THEN LET oldPos == ti.offset_data
             tell   == NestedEnd(ti)
         IN  [pos |-> tell, oldPos |-> oldPos, nested |-> TRUE]
    ELSE [pos |-> ti.offset_data, oldPos |-> 0, nested |-> FALSE]

\* One turn of the loop of createIndex on the outer archive.
ScanStep ==
    /\ pc = "createIndex"
    /\ scanPos < Len(tarInfos)
    /\ fileObject' = ScanHandle(tarInfos[scanPos + 1], mountRecursively)
    /\ \E r \in {ScanMember(fileIndex, tarInfos[scanPos + 1], mountRecursively)} :
           IF r.err # ""
           THEN /\ pc' = "crashed"
                /\ err' = r.err
                /\ UNCHANGED <<fileIndex, scanPos>>
           ELSE /\ fileIndex' = r.tree
                /\ scanPos' = scanPos + 1
                /\ UNCHANGED <<pc, err>>
    /\ UNCHANGED <<tarFile, indexFile, cacheIndexFile, mountRecursively, how, loadRet, ret, dumped,
                   first, jfVars, tarFileTell, threads>>

\* createIndex is through; writeIndex( self.indexFileName ) with the custom codec.
WriteIndex ==
    /\ pc = "createIndex"
    /\ scanPos = Len(tarInfos)
    /\ indexFile' = [exists |-> TRUE, bytes |-> Dump(fileIndex)]
    /\ dumped' = [set |-> TRUE, tree |-> fileIndex]
    /\ pc' = "indexed"
    /\ UNCHANGED <<tarFile, cacheIndexFile, mountRecursively, fileIndex, scanPos, how,
                   loadRet, err, ret, first, jfVars, ioVars>>

\* createIndex is through; the path beside the archive cannot be created
\* (IOError), the one in the cache folder can, and the index is written there.
WriteIndexCache ==
    /\ pc = "createIndex"
    /\ scanPos = Len(tarInfos)
    /\ ~indexFile.exists
    /\ cacheIndexFile' = [exists |-> TRUE, bytes |-> Dump(fileIndex)]
    /\ dumped' = [set |-> TRUE, tree |-> fileIndex]
    /\ pc' = "indexed"
    /\ UNCHANGED <<tarFile, indexFile, mountRecursively, fileIndex, scanPos, how,
                   loadRet, err, ret, first, jfVars, ioVars>>

\* createIndex is through; no candidate path can be written (IOError), which
\* IndexedTar.__init__ reports and lives with.
WriteIndexFails ==
    /\ pc = "createIndex"
    /\ scanPos = Len(tarInfos)
    /\ ~indexFile.exists
    /\ ~cacheIndexFile.exists
    /\ pc' = "indexed"
    /\ UNCHANGED <<tarFile, indexFile, cacheIndexFile, mountRecursively, fileIndex, scanPos, how,
                   loadRet, err, ret, dumped, first, jfVars, ioVars>>

\* The rest of TarMount.__init__: the root gets its "." entry.
MountRoot ==
    /\ pc = "indexed"
    /\ fileIndex' = PutLeaf(fileIndex, <<<<Dot>>>>, RootInfo)
    /\ first' = IF first.set THEN first
               ELSE [set |-> TRUE, tree |-> fileIndex',
                     persisted |-> indexFile.exists \/ cacheIndexFile.exists]
    /\ pc' = "mounted"
    /\ UNCHANGED <<tarFile, indexFile, cacheIndexFile, mountRecursively, scanPos, how, loadRet, err,
                   ret, dumped, jfVars, ioVars>>

\* A mutant of ReadOnlyMode: only the owner's write bit is cleared.
ReadOnlyModeOwner(mode) == AndNot(mode, S_IWUSR)

\* statDict['st_mode'] &= ~( stat.S_IWUSR | stat.S_IWGRP | stat.S_IWOTH )
ReadOnlyMode(mode) == AndNot(mode, BitOr(BitOr(S_IWUSR, S_IWGRP), S_IWOTH))

\* getattr( path )
GetattrResult(t, path) ==
    LET Of(r) ==
            IF r.kind = "TypeError"
            THEN Ret("getattr", path, 0, 0, "TypeError", <<>>, NoStat, <<>>)
            ELSE IF r.kind # "FileInfo"
            THEN Ret("getattr", path, 0, 0, "EROFS", <<>>, NoStat, <<>>)
            ELSE Ret("getattr", path, 0, 0, "ok", <<>>,
                     [st_size |-> r.info.size, st_mtime |-> r.info.mtime,
                      st_mode |-> ReadOnlyMode(r.info.mode),
                      st_uid |-> r.info.uid, st_gid |-> r.info.gid, st_nlink |-> 2],
                     <<>>)
    IN  Of(GetFileInfo(t, path, FALSE))

\* readdir( path ): '.' and '..' are yielded before the lookup is touched, and
\* .keys() of what is no dictionary raises AttributeError.
ReaddirResult(t, path) ==
    LET dots == <<<<Dot>>, <<Dot, Dot>>>>
        Of(r) ==
            IF r.kind = "dict"
            THEN Ret("readdir", path, 0, 0, "ok", <<>>, NoStat,
                     dots \o Sorted(Keys(t, r.at)))
            ELSE IF r.kind = "TypeError"
            THEN Ret("readdir", path, 0, 0, "TypeError", <<>>, NoStat, dots)
            ELSE Ret("readdir", path, 0, 0, "AttributeError", <<>>, NoStat, dots)
    IN  Of(GetFileInfo(t, path, TRUE))

\* readlink( path ): self.root, which the absolute branch reads, is set nowhere.
ReadlinkResult(t, path) ==
    LET Of(r) ==
            IF r.kind = "TypeError"
            THEN Ret("readlink", path, 0, 0, "TypeError", <<>>, NoStat, <<>>)
            ELSE IF r.kind # "FileInfo"
            THEN Ret("readlink", path, 0, 0, "EROFS", <<>>, NoStat, <<>>)
            ELSE IF StartsWith(r.info.linkname, <<Slash>>)
            THEN Ret("readlink", path, 0, 0, "AttributeError", <<>>, NoStat, <<>>)
            ELSE Ret("readlink", path, 0, 0, "ok", r.info.linkname, NoStat, <<>>)
    IN  Of(GetFileInfo(t, path, FALSE))

\* self.tarFile.seek( pos ); self.tarFile.read( length ): the bytes of the
\* archive file are named by their position in it.
TarFileRead(pos, length) == Range(pos, Min(pos + length, tarStats.st_size))

\* read( path, length, offset, fh )
ReadResult(t, path, length, off) ==
    LET Of(r) ==
            IF r.kind = "TypeError"
            THEN Ret("read", path, length, off, "TypeError", <<>>, NoStat, <<>>)
            ELSE IF r.kind # "FileInfo"
            THEN Ret("read", path, length, off, "EROFS", <<>>, NoStat, <<>>)
            ELSE Ret("read", path, length, off, "ok",
                     TarFileRead(r.info.offset + off, length), NoStat, <<>>)
    IN  Of(GetFileInfo(t, path, FALSE))

\* The paths the callbacks are called with:
\*   "/", "", "/a", "/d", "/d/e-acute", "/d/l", "/s", "/f", "/f.tar", "/f/x",
\*   "/f.tar/x", "/zz" (in no archive), "/d/l/e-acute" (below a link),
\*   "//d/../a" (not normalized)
CallPaths ==
    { <<47>>, <<>>, <<47, 97>>, <<47, 100>>, <<47, 100, 47, 233>>,
      <<47, 100, 47, 108>>, <<47, 115>>, <<47, 102>>,
      <<47, 102, 46, 116, 97, 114>>, <<47, 102, 47, 120>>,
      <<47, 102, 46, 116, 97, 114, 47, 120>>, <<47, 122, 122>>,
      <<47, 100, 47, 108, 47, 233>>, <<47, 47, 100, 47, 46, 46, 47, 97>> }

ReadLengths == {1, 2, 3}

ReadOffsets == {0, 1}

\* The callbacks are served one at a time: a callback is taken up when the
\* previous one has been answered.
Getattr(path) ==
    /\ pc = "mounted" /\ ret = Idle
    /\ ret' = GetattrResult(fileIndex, path)
    /\ UNCHANGED <<tarFile, indexFile, cacheIndexFile, pc, mountRecursively, fileIndex, scanPos, how,
                   loadRet, err, dumped, first, jfVars, ioVars>>

Readdir(path) ==
    /\ pc = "mounted" /\ ret = Idle
    /\ ret' = ReaddirResult(fileIndex, path)
    /\ UNCHANGED <<tarFile, indexFile, cacheIndexFile, pc, mountRecursively, fileIndex, scanPos, how,
                   loadRet, err, dumped, first, jfVars, ioVars>>

Readlink(path) ==
    /\ pc = "mounted" /\ ret = Idle
    /\ ret' = ReadlinkResult(fileIndex, path)
    /\ UNCHANGED <<tarFile, indexFile, cacheIndexFile, pc, mountRecursively, fileIndex, scanPos, how,
                   loadRet, err, dumped, first, jfVars, ioVars>>

TarRead(path, length, off) ==
    /\ pc = "mounted" /\ ret = Idle
    /\ ret' = ReadResult(fileIndex, path, length, off)
    /\ UNCHANGED <<tarFile, indexFile, cacheIndexFile, pc, mountRecursively, fileIndex, scanPos, how,
                   loadRet, err, dumped, first, jfVars, ioVars>>

\* The answer has gone back to the kernel.
Reply ==
    /\ pc = "mounted" /\ ret # Idle
    /\ ret' = Idle
    /\ UNCHANGED <<tarFile, indexFile, cacheIndexFile, pc, mountRecursively, fileIndex, scanPos, how,
                   loadRet, err, dumped, first, jfVars, ioVars>>

\* The filesystem is unmounted and the process ends; the index file stays.
Unmount ==
    /\ pc = "mounted" /\ ret = Idle
    /\ pc' = "unmounted"
    /\ fileIndex' = EmptyTree
    /\ scanPos' = 0
    /\ how' = ""
    /\ loadRet' = NoLoad
    /\ fileObject' = NoHandle
    /\ tarFileTell' = 0
    /\ UNCHANGED <<tarFile, indexFile, cacheIndexFile, mountRecursively, err, ret, dumped, first, jfVars,
                   threads>>

\* The requests the threads of the FUSE loop read with:
\*   "/a", "/d/e-acute", "/zz" (in no archive); one byte; at offset 0 or 1
ThreadPaths == { <<47, 97>>, <<47, 100, 47, 233>>, <<47, 122, 122>> }

ThreadOffsets == {0, 1}

\* read( path, length, offset, fh ) in thread t, up to and including
\* self.tarFile.seek( fileInfo.offset + offset, os.SEEK_SET ).
ReadSeek(t, path, length, off) ==
    /\ pc = "mounted" /\ ret = Idle
    /\ threads[t].pc = "idle"
    /\ \E r \in {GetFileInfo(fileIndex, path, FALSE)} :
           IF r.kind # "FileInfo"
           THEN /\ threads' = [threads EXCEPT ![t] =
                        [pc |-> "done", path |-> path, length |-> length, offset |-> off,
                         want |-> 0, data |-> <<>>,
                         status |-> IF r.kind = "TypeError" THEN "TypeError" ELSE "EROFS"]]
                /\ tarFileTell' = tarFileTell
           ELSE /\ threads' = [threads EXCEPT ![t] =
                        [pc |-> "sought", path |-> path, length |-> length, offset |-> off,
                         want |-> r.info.offset + off, data |-> <<>>, status |-> ""]]
                /\ tarFileTell' = r.info.offset + off
    /\ UNCHANGED <<tarVars, jfVars, fileObject>>

\* return self.tarFile.read( length ) in thread t: the bytes from where the
\* handle stands now.
ReadRead(t) ==
    /\ pc = "mounted"
    /\ threads[t].pc = "sought"
    /\ \E data \in {TarFileRead(tarFileTell, threads[t].length)} :
           /\ threads' = [threads EXCEPT ![t].pc = "done", ![t].status = "ok",
                                         ![t].data = data]
           /\ tarFileTell' = tarFileTell + Len(data)
    /\ UNCHANGED <<tarVars, jfVars, fileObject>>

\* The answer of thread t has gone back to the kernel.
ReadReturn(t) ==
    /\ pc = "mounted"
    /\ threads[t].pc = "done"
    /\ threads' = [threads EXCEPT ![t] = NoThread]
    /\ UNCHANGED <<tarVars, jfVars, fileObject, tarFileTell>>

\* The state __init__ leaves: the kept sizes, and seek(0) done.
JFInit ==
    /\ \E raw \in RawSizes : sizes = KeptSizes(raw)
    /\ offset = 0
    /\ fileobj = IF Len(sizes) = 0 THEN None ELSE [part |-> 0, pos |-> 0]
    /\ closed = FALSE
    /\ jfRet = JfRet("__init__", 0, 0, "ok", <<>>, 0)
    /\ openFiles = (IF Len(sizes) = 0 THEN 0 ELSE 1)
    /\ peakOpen = openFiles
    /\ TarUnused

JFNext ==
    \/ \E o \in -(MaxPast + MaxTotal)..(MaxTotal + MaxPast),
          w \in {"SEEK_SET", "SEEK_CUR", "SEEK_END"} : Seek(o, w)
    \/ \E n \in -1..MaxRead : Read(n)
    \/ Tell
    \/ \E o \in 0..(Total + MaxPast) : FindStencilCall(o)
    \/ Close

SpecJF == JFInit /\ [][JFNext]_vars

Init == TarInit

Next ==
    \/ \E recursive \in BOOLEAN : MountBegin(recursive)
    \/ ScanStep
    \/ WriteIndex
    \/ WriteIndexCache
    \/ WriteIndexFails
    \/ MountRoot
    \/ \E path \in CallPaths : Getattr(path)
    \/ \E path \in CallPaths : Readdir(path)
    \/ \E path \in CallPaths : Readlink(path)
    \/ \E path \in CallPaths, length \in ReadLengths, off \in ReadOffsets :
          TarRead(path, length, off)
    \/ Reply
    \/ Unmount

Spec == Init /\ [][Next]_vars

\* ---- the load path, with whatever index files are on disk ----------

\* What may sit at a candidate path when the archive ms is mounted: nothing, a
\* zero-byte file, the index of the archive, that index cut short (by its last
\* byte, or to its first half), or with its first or last byte overwritten.
IndexFilesOf(good) ==
    {NoIndexFile}
    \cup {[exists |-> TRUE, bytes |-> b] :
             b \in {<<>>, good, SubSeq(good, 1, Len(good) - 1),
                    SubSeq(good, 1, Len(good) \div 2),
                    <<0>> \o Tail(good), SubSeq(good, 1, Len(good) - 1) \o <<0>>}}

IndexFiles(ms) == IndexFilesOf(Dump(ScanAll(EmptyTree, TarInfos(ms, 0), FALSE).tree))

\* An archive on disk, and any of these files at the two candidate paths.
InitIndex ==
    /\ tarFile \in Archives
    /\ indexFile \in IndexFiles(tarFile)
    /\ cacheIndexFile \in IndexFiles(tarFile)
    /\ pc = "start"
    /\ mountRecursively = FALSE
    /\ fileIndex = EmptyTree
    /\ scanPos = 0
    /\ how = ""
    /\ loadRet = NoLoad
    /\ err = ""
    /\ ret = Idle
    /\ dumped = NoTree
    /\ first = NoFirst
    /\ IoUnused
    /\ JFUnused

NextIndex ==
    \/ \E recursive \in BOOLEAN : MountBegin(recursive)
    \/ ScanStep
    \/ WriteIndex
    \/ WriteIndexCache
    \/ WriteIndexFails
    \/ MountRoot
    \/ Unmount

SpecIndex == InitIndex /\ [][NextIndex]_vars

\* The mount as fuse.FUSE runs it: no nothreads argument is passed, so the
\* loop of libfuse is the multi-threaded one and read callbacks run in several
\* threads; a thread can be switched between two calls on self.tarFile.
NextThreads ==
    \/ \E recursive \in BOOLEAN : MountBegin(recursive)
    \/ ScanStep
    \/ WriteIndex
    \/ MountRoot
    \/ \E t \in 1..NUM_THREADS, path \in ThreadPaths, off \in ThreadOffsets :
           ReadSeek(t, path, 1, off)
    \/ \E t \in 1..NUM_THREADS : ReadRead(t)
    \/ \E t \in 1..NUM_THREADS : ReadReturn(t)

SpecThreads == TarInit /\ [][NextThreads]_vars

\* ---------------------------------------------------------------- C3

\* The path createIndex gives a member.
MemberPath(ti) == NormPath(<<Slash>> \o ti.name)

\* The payload of a member: the bytes of the archive file it occupies.
Payload(ti) == Range(ti.offset_data, ti.offset_data + ti.size)

\* read( path, |p|, 0 ) returns the payload p of the member.
ReadsPayload(path, ti) ==
    /\ ReadResult(fileIndex, path, ti.size, 0).status = "ok"
    /\ ReadResult(fileIndex, path, ti.size, 0).data = Payload(ti)

\* The member is a nested archive that recursive mounting expands.
Expanded(ti) ==
    mountRecursively /\ IsFileType(ti) /\ EndsWith(ti.name, TarSuffix) /\ ti.members # <<>>

\* No other member of the archive goes by the path of member i.
OnlyOne(tis, i) ==
    \A j \in 1..Len(tis) : j # i => MemberPath(tis[j]) # MemberPath(tis[i])

\* C3: after the index build, every scanned member (whatever the member order;
\* for an expanded nested archive, its members below the mount point) can be
\* read back: read(resolve(n), |p|, 0) returns exactly its payload p.
C3_EveryMemberReadable ==
    (pc = "mounted" /\ how = "scan") =>
        \A i \in 1..Len(tarInfos) :
            OnlyOne(tarInfos, i) =>
                IF Expanded(tarInfos[i])
                THEN \A k \in 1..Len(tarInfos[i].members) :
                        \E mount \in {StripTar(MemberPath(tarInfos[i])),
                                      MemberPath(tarInfos[i])} :
                            ReadsPayload(mount \o MemberPath(tarInfos[i].members[k]),
                                         tarInfos[i].members[k])
                ELSE ReadsPayload(MemberPath(tarInfos[i]), tarInfos[i])

\* ---------------------------------------------------------------- C4

\* C4: a read that succeeds on a regular file of size s returns at most
\* max(0, s - offset) bytes, and no byte from outside the payload range
\* [record.offset, record.offset + s) of the archive.
C4_ReadWithinMember ==
    (/\ ret.op = "read"
     /\ ret.status = "ok"
     /\ GetFileInfo(fileIndex, ret.path, FALSE).info.type = REGTYPE
     /\ ~GetFileInfo(fileIndex, ret.path, FALSE).info.istar) =>
        /\ Len(ret.data) <=
               Max(0, GetFileInfo(fileIndex, ret.path, FALSE).info.size - ret.offset)
        /\ \A k \in 1..Len(ret.data) :
               /\ ret.data[k] >= GetFileInfo(fileIndex, ret.path, FALSE).info.offset
               /\ ret.data[k] < GetFileInfo(fileIndex, ret.path, FALSE).info.offset
                                    + GetFileInfo(fileIndex, ret.path, FALSE).info.size

\* ---------------------------------------------------------------- C5

WriteBits == BitOr(BitOr(S_IWUSR, S_IWGRP), S_IWOTH)

\* C5: where getattr succeeds, st_mode has the three write bits cleared and
\* every other bit of the stored mode kept, and st_nlink is 2.
C5_ReadOnlyProjection ==
    (ret.op = "getattr" /\ ret.status = "ok") =>
        /\ BitAnd(ret.stat.st_mode, WriteBits) = 0
        /\ ret.stat.st_mode
               + BitAnd(GetFileInfo(fileIndex, ret.path, FALSE).info.mode, WriteBits)
           = GetFileInfo(fileIndex, ret.path, FALSE).info.mode
        /\ ret.stat.st_nlink = 2

\* getattr has answered for a file that is writable by its group in the archive.
C5_Witness ==
    /\ ret.op = "getattr"
    /\ ret.status = "ok"
    /\ GetFileInfo(fileIndex, ret.path, FALSE).info.type = REGTYPE
    /\ BitAnd(GetFileInfo(fileIndex, ret.path, FALSE).info.mode, S_IWGRP) # 0

\* ---------------------------------------------------------------- C6

\* C6: readdir answers with ENOENT whenever the path is no directory, absent
\* or a file, and fails in no other way.
C6_ReaddirNotFound ==
    (ret.op = "readdir") =>
        /\ ret.status \in {"ok", "ENOENT"}
        /\ ~IsDir(fileIndex, ret.path) => ret.status = "ENOENT"

\* ---------------------------------------------------------------- C7

\* C7: readlink on a link entry returns the stored linkname, relative or
\* absolute.
C7_ReadlinkStoredName ==
    (/\ ret.op = "readlink"
     /\ GetFileInfo(fileIndex, ret.path, FALSE).kind = "FileInfo"
     /\ GetFileInfo(fileIndex, ret.path, FALSE).info.type = SYMTYPE) =>
        /\ ret.status = "ok"
        /\ ret.data = GetFileInfo(fileIndex, ret.path, FALSE).info.linkname

\* ---------------------------------------------------------------- C8

\* C8: load, applied to the bytes dump wrote for the tree of a scan, succeeds
\* and yields a tree equal to that tree.
C8_IndexRoundTrip ==
    (loadRet.called /\ dumped.set) =>
        /\ loadRet.ok
        /\ loadRet.tree = dumped.tree

\* An index was loaded that holds a directory with its "." entry and a file in it.
C8_Witness ==
    /\ loadRet.called
    /\ loadRet.ok
    /\ IsLeaf(loadRet.tree, <<<<100>>, <<Dot>>>>)
    /\ IsLeaf(loadRet.tree, <<<<100>>, <<233>>>>)

\* ---------------------------------------------------------------- C9

\* C9: when the first mount wrote the index file, every later mount of the
\* archive serves the tree the first mount served, whatever its recursive flag.
C9_MountIdempotence ==
    (pc = "mounted" /\ first.set /\ first.persisted) => fileIndex = first.tree

\* A second mount, asked to mount recursively, serves from the index of a first
\* mount that was not: the nested archive is still a file.
C9_Witness ==
    /\ pc = "mounted"
    /\ first.set
    /\ first.persisted
    /\ how = "index"
    /\ mountRecursively
    /\ IsLeaf(fileIndex, <<<<102, 46, 116, 97, 114>>>>)

\* ---------------------------------------------------------------- C10

\* The archive holds both the directory f/ and the nested archive f.tar.
Clash == DirF \in {tarFile[i] : i \in 1..Len(tarFile)}
         /\ TarF \in {tarFile[i] : i \in 1..Len(tarFile)}

\* The TarInfo of the directory f/.
ClashDir == CHOOSE ti \in {tarInfos[i] : i \in 1..Len(tarInfos)} : ti.name = DirF.name

\* C10: with f/ and f.tar both in the archive, in either order, the recursive
\* build completes, and then /f is the outer directory with the metadata of its
\* entry and /f.tar is the mount of the nested archive, holding its member x.
C10_NameClash ==
    (Clash /\ mountRecursively /\ how = "scan") =>
        /\ pc # "crashed"
        /\ pc \in {"indexed", "mounted"} =>
               /\ GetFileInfo(fileIndex, <<47, 102>>, FALSE).kind = "FileInfo"
               /\ GetFileInfo(fileIndex, <<47, 102>>, FALSE).info = InfoOf(ClashDir)
               /\ GetFileInfo(fileIndex, <<47, 102, 46, 116, 97, 114>>, FALSE).info.istar
               /\ IsLeaf(fileIndex, <<<<102, 46, 116, 97, 114>>, <<120>>>>)

\* ---------------------------------------------------------------- C11

\* C11: after a build, every path the scan inserted (the path of a member
\* that is no expanded archive and shares its path with no other member)
\* exists, and getFileInfo returns the record made for that member.
C11_InsertedPathsExist ==
    (pc \in {"indexed", "mounted"} /\ how = "scan") =>
        \A i \in 1..Len(tarInfos) :
            (OnlyOne(tarInfos, i) /\ ~Expanded(tarInfos[i])) =>
                /\ Exists(fileIndex, MemberPath(tarInfos[i])) = "yes"
                /\ GetFileInfo(fileIndex, MemberPath(tarInfos[i]), FALSE).info
                       = InfoOf(tarInfos[i])

\* ---------------------------------------------------------------- C12

\* C12: an index file that is there, not empty, and fails to decode does not
\* make the construction fail: the program goes on to scan the archive.
C12_CorruptIndexRecovered ==
    (loadRet.called /\ ~loadRet.ok) =>
        /\ pc # "crashed"
        /\ how = "scan"

\* ---------------------------------------------------------------- C13

\* Member j is the last member of the archive that goes by its path.
LastOfPath(tis, j) ==
    \A k \in 1..Len(tis) : MemberPath(tis[k]) = MemberPath(tis[j]) => k <= j

\* C13: when two members that are no mounted archives go by the same path,
\* the record the build leaves at that path is that of the member scanned last.
C13_LastWriteWins ==
    (pc \in {"indexed", "mounted"} /\ how = "scan") =>
        \A i, j \in 1..Len(tarInfos) :
            (/\ i < j
             /\ MemberPath(tarInfos[i]) = MemberPath(tarInfos[j])
             /\ LastOfPath(tarInfos, j)
             /\ ~Expanded(tarInfos[i])
             /\ ~Expanded(tarInfos[j])) =>
                GetFileInfo(fileIndex, MemberPath(tarInfos[j]), FALSE).info
                    = InfoOf(tarInfos[j])

\* ---------------------------------------------------------------- C14

\* The positions of the log at which a file was loaded.
Loads == {k \in 1..Len(loadRet.log) : loadRet.log[k].op = "load"}

\* The bytes given to the last call of load.
LoadedBytes == loadRet.log[CHOOSE k \in Loads : \A m \in Loads : m <= k].bytes

\* C14: load fails on every malformed input, a stream cut short included: when
\* it returns a tree, its input was the complete encoding of that tree.
C14_LoadRejectsMalformed ==
    (loadRet.called /\ loadRet.ok) => LoadedBytes = Dump(loadRet.tree)

\* ---------------------------------------------------------------- C15

\* Since the load path ran, no index file has been written.
AfterLoadPath == pc \in {"createIndex", "crashed"} \/ how = "index"

\* The candidate files as they are now.
FileAt(at) == IF at = 1 THEN indexFile ELSE cacheIndexFile

\* a is a subsequence of b.
RECURSIVE IsSubseq(_, _)
IsSubseq(a, b) ==
    IF a = <<>> THEN TRUE
    ELSE IF b = <<>> THEN FALSE
    ELSE IF Head(a) = Head(b) THEN IsSubseq(Tail(a), Tail(b))
    ELSE IsSubseq(a, Tail(b))

\* The candidates were gone through in order, the file beside the archive
\* first, and every zero-byte file met was deleted.
InOrderZeroDeleted ==
    /\ IsSubseq([k \in 1..Len(loadRet.log) |-> loadRet.log[k].at], Candidates)
    /\ (loadRet.log # <<>> /\ loadRet.log[1].at = 2) => ~indexFile.exists
    /\ \A k \in 1..Len(loadRet.log) :
           loadRet.log[k].op = "remove" => ~FileAt(loadRet.log[k].at).exists
    /\ pc = "createIndex" =>
           \A at \in {1, 2} : ~(FileAt(at).exists /\ Len(FileAt(at).bytes) = 0)

C16_NegativeSeekNoEffect ==
    /\ offset >= 0
    /\ (jfRet.op = "seek" /\ jfRet.status = "Exception") => offset = jfRet.at

\* ---------------------------------------------------------------- C17

\* C17 as stated: from construction to close() exactly one part file is open.
C17_ExactlyOneOpen == ~closed => openFiles = 1

\* C17, amended: from construction to close() one part file is open when the
\* stream has a non-empty part and none when it has no part; at no moment,
\* also not while a read or a seek goes over to another part, are two open.
C17_OneOpenPart ==
    /\ peakOpen <= 1
    /\ ~closed => openFiles = (IF Len(sizes) = 0 THEN 0 ELSE 1)

\* A read that began in an earlier part has gone over to the part now open.
C17_Witness ==
    /\ ~closed
    /\ jfRet.op = "read"
    /\ fileobj # None
    /\ fileobj.part >= 1
    /\ jfRet.at < cumsizes[fileobj.part + 1]
    /\ openFiles = 1

\* ---------------------------------------------------------------- C18

\* C18: every read callback returns the bytes of the archive from
\* record.offset + offset of its own request on, whatever the other read
\* callbacks do.
C18_ReadOwnBytes ==
    \A t \in 1..NUM_THREADS :
        (threads[t].pc = "done" /\ threads[t].status = "ok") =>
            threads[t].data = TarFileRead(threads[t].want, threads[t].length)

\* ---------------------------------------------------------------- C19

\* C19: when the scan of a nested archive is through, the handle stands where
\* it stood before that scan began.
C19_HandleRestored ==
    (pc = "createIndex" /\ fileObject.nested) => fileObject.pos = fileObject.oldPos

\* ---------------------------------------------------------------- C20

\* The paths of the tree that hold the "." entry of a directory.
SelfEntries == {Q \in DOMAIN fileIndex.files : Q[Len(Q)] = <<Dot>>}

\* C20: in the tree of a mount built by scanning, the "." entry of every
\* directory has the type of a directory and a mode that is not zero, also
\* where the directory stands for a nested archive.
C20_SelfEntryIsDirectory ==
    (pc = "mounted" /\ how = "scan") =>
        \A Q \in SelfEntries :
            /\ fileIndex.files[Q].type = DIRTYPE
            /\ fileIndex.files[Q].mode # 0

\* ---------------------------------------------------------------- C21

\* C21: path lookup normalizes before it descends ("//d/../a" finds what "/a"
\* finds), and the empty path resolves to the root: with listDir = True it
\* gives the root dictionary, as "/" does, before the mount has added the
\* root's "." entry (pc = "indexed") and after (pc = "mounted").
C21_EmptyPathIsRoot ==
    pc \in {"indexed", "mounted"} =>
        /\ GetFileInfo(fileIndex, <<47, 47, 100, 47, 46, 46, 47, 97>>, TRUE)
               = GetFileInfo(fileIndex, <<47, 97>>, TRUE)
        /\ GetFileInfo(fileIndex, <<Slash>>, TRUE).kind = "dict"
        /\ GetFileInfo(fileIndex, <<Slash>>, TRUE).at = <<>>
        /\ GetFileInfo(fileIndex, <<>>, TRUE) = GetFileInfo(fileIndex, <<Slash>>, TRUE)

====
